---- MODULE Spec2Model ----
(***************************************************************************)
(* Model of youtube-first-comment (src/src/main.rs): the program resolves  *)
(* a channel's uploads playlist, takes a baseline of its latest video,     *)
(* then polls on a fixed interval and comments on the first video whose id *)
(* differs from the baseline, giving up after MAX_RETRIES failed posts or  *)
(* when the wait limit has elapsed.                                        *)
(*                                                                         *)
(* main is one async task: its code runs atomically between two awaits, so *)
(* there is one action per await that completes (the channel lookup, the   *)
(* baseline lookup, the sleep, the in-loop lookup, the post).  The remote  *)
(* channel is the environment: it publishes videos at any moment.          *)
(*                                                                         *)
(* Option<T> is a sequence of length at most one: None is <<>>, Some(x) is *)
(* <<x>>.  A String is a sequence of one-character strings.  Video ids are *)
(* the positive integers in publication order: the n-th upload has id n.   *)
(* Time is counted in ticks of 1/TicksPerSec second.                       *)
(***************************************************************************)
EXTENDS Integers, Sequences, FiniteSets, TLC

\* ---------------------------------------------------------------- bounds
\* Videos the channel publishes at most, before and during the run.
MaxUploads == 2
\* The longest a network call takes, and the longest a sleep overshoots.
MaxDelay == 1
\* The largest --wait-limit (minutes) a run is started with.
MaxWaitLimit == 1
\* Clock resolution: ticks per second (Duration::as_secs drops the rest).
TicksPerSec == 2

\* ------------------------------------------------------- program constants
MAX_RETRIES == 3
SecsPerMinute == 60
U8 == 256
\* Process exit codes: main returns Ok, main returns Err, main panics.
EXIT_OK == 0
EXIT_ERR == 1
EXIT_PANIC == 101

\* --pool-interval values (seconds) a run is started with.
PoolIntervals == {19, 59, 60}
WaitLimits == 0..MaxWaitLimit
Delays == {0, MaxDelay}
\* The clock is followed up to Horizon ticks and stands still there; the
\* program ends well before (ClockBelowHorizon).
Horizon == (MaxWaitLimit + 2) * SecsPerMinute * TicksPerSec

\* ------------------------------------------------------------------ Option
None == <<>>
Some(x) == <<x>>
IsSome(o) == o # <<>>
Unwrap(o) == o[1]

\* ----------------------------------------------------------------- strings
SHORTS == <<"#", "s", "h", "o", "r", "t", "s">>

\* str::contains: needle occurs as a contiguous substring of hay.
Contains(hay, needle) ==
  \E i \in 0..(Len(hay) - Len(needle)) :
    \A j \in 1..Len(needle) : hay[i + j] = needle[j]

\* Option<String>::unwrap_or_default
UnwrapOrDefault(o) == IF IsSome(o) THEN Unwrap(o) ELSE <<>>

\* Descriptions the channel gives its videos (snippet.description).
Descriptions ==
  { None,
    Some(<<"a", " ">> \o SHORTS \o <<"!">>),
    Some(<<"#", "s", "h", "o", "r", "t">>) }

\* --------------------------------------------------------------- the remote
\* The id of the channel's uploads playlist.
UPLOADS_ID == "UU"

\* Ways a call to the platform can go: answered in full, failed (network,
\* auth, quota, not found), or answered with a part of the resource missing.
ChannelFaults ==
  {"none", "err", "no_items", "empty", "no_content_details",
   "no_related_playlists", "no_uploads"}
PlaylistFaults ==
  {"none", "err", "no_items", "empty", "no_snippet", "no_resource_id",
   "no_video_id"}

\* channels().list(contentDetails).add_id(channel_id).doit()
ChannelsListResponse(fault) ==
  [ ok |-> fault # "err",
    items |->
      IF fault \in {"err", "no_items"} THEN None
      ELSE IF fault = "empty" THEN Some(<<>>)
      ELSE Some(<< [ content_details |->
             IF fault = "no_content_details" THEN None
             ELSE Some([ related_playlists |->
               IF fault = "no_related_playlists" THEN None
               ELSE Some([ uploads |->
                 IF fault = "no_uploads" THEN None
                 ELSE Some(UPLOADS_ID) ]) ]) ] >>) ]

\* playlist_items().list(snippet).playlist_id(id).max_results(1).doit():
\* the newest item of the playlist, none when the playlist is empty or is
\* not the channel's.
PlaylistItemsResponse(ch, playlist_id, fault) ==
  [ ok |-> fault # "err",
    items |->
      IF fault \in {"err", "no_items"} THEN None
      ELSE IF fault = "empty" \/ ch.count = 0 \/ playlist_id # UPLOADS_ID
        THEN Some(<<>>)
      ELSE Some(<< [ snippet |->
             IF fault = "no_snippet" THEN None
             ELSE Some([ description |-> ch.description,
                         resource_id |->
                           IF fault = "no_resource_id" THEN None
                           ELSE Some([ video_id |->
                             IF fault = "no_video_id" THEN None
                             ELSE Some(ch.count) ]) ]) ] >>) ]

\* ------------------------------------------------------------ the resolvers
\* Mutant: a missing uploads id is defaulted to the empty string.
get_uploads_playlist_id_Default(response) ==
  IF response.ok /\ IsSome(response.items)
       /\ Len(Unwrap(response.items)) > 0
       /\ IsSome(Head(Unwrap(response.items)).content_details)
       /\ IsSome(Unwrap(Head(Unwrap(response.items)).content_details)
                   .related_playlists)
    THEN LET uploads ==
               Unwrap(Unwrap(Head(Unwrap(response.items)).content_details)
                        .related_playlists).uploads
         IN IF IsSome(uploads) THEN uploads ELSE Some("")
    ELSE None

get_uploads_playlist_id(response) ==
  IF response.ok THEN
    IF ~IsSome(response.items) THEN None
    ELSE LET items == Unwrap(response.items) IN
      IF Len(items) = 0 THEN None
      ELSE LET item == Head(items) IN
        IF ~IsSome(item.content_details) THEN None
        ELSE LET details == Unwrap(item.content_details) IN
          IF ~IsSome(details.related_playlists) THEN None
          ELSE Unwrap(details.related_playlists).uploads
  ELSE None

\* Mutant: the marker is looked for at the start of the description only.
IsShort_StartsWith(snippet) ==
  LET text == UnwrapOrDefault(snippet.description) IN
    /\ Len(text) >= Len(SHORTS)
    /\ SubSeq(text, 1, Len(SHORTS)) = SHORTS

\* The short-form filter of get_latest_video_id.
IsShort(snippet) == Contains(UnwrapOrDefault(snippet.description), SHORTS)

get_latest_video_id(response) ==
  IF response.ok THEN
    IF ~IsSome(response.items) THEN None
    ELSE LET items == Unwrap(response.items) IN
      IF Len(items) = 0 THEN None
      ELSE LET item == Head(items) IN
        IF ~IsSome(item.snippet) THEN None
        ELSE LET snippet == Unwrap(item.snippet) IN
          IF IsShort(snippet) THEN None
          ELSE IF IsSome(snippet.resource_id)
            THEN Unwrap(snippet.resource_id).video_id
            ELSE None
  ELSE None

\* ------------------------------------------------------------------- state
VARIABLES
  pc,                  \* where main is: the await it is suspended at, or how it ended
  channel,             \* the remote: uploads so far, description of the newest
  pool_interval,       \* args.pool_interval (seconds)
  wait_limit,          \* args.wait_limit (minutes)
  uploads_playlist_id, \* Option: the playlist id resolved at start
  latest_video_id,     \* Option: the baseline
  retries,             \* u8
  started_at,          \* Instant (ticks)
  now,                 \* the clock (ticks)
  new_video_id,        \* Option: the video of the post in flight
  exit_code,           \* Option: the process's exit code once it has exited
  \* history, read by no action's guard
  baseline_count,      \* Option: uploads that existed when the baseline call was answered
  posted,              \* the video ids post_comment was called with, in order
  successes,           \* post_comment calls that returned Ok
  last_result,         \* Option<Option>: what the last in-loop get_latest_video_id returned
  last_seen,           \* Option: the description of the newest upload at that call
  playlist_calls,      \* calls of get_uploads_playlist_id
  queried,             \* the playlist ids get_latest_video_id was called with
  channels_fault       \* Option: how the channel lookup went

vars ==
  << pc, channel, pool_interval, wait_limit, uploads_playlist_id,
     latest_video_id, retries, started_at, now, new_video_id, exit_code,
     baseline_count, posted, successes, last_result, last_seen,
     playlist_calls, queried, channels_fault >>

progvars ==
  << pc, uploads_playlist_id, latest_video_id, retries, started_at,
     new_video_id, exit_code, baseline_count, posted, successes,
     last_result, last_seen, playlist_calls, queried, channels_fault >>

Terminal == {"Succeeded", "RetryExhausted", "DeadlineReached", "InitFailed"}

Init ==
  /\ pc = "Initializing"
  /\ channel = [count |-> 0, description |-> None]
  /\ pool_interval \in PoolIntervals
  /\ wait_limit \in WaitLimits
  /\ uploads_playlist_id = None
  /\ latest_video_id = None
  /\ retries = 0
  /\ started_at = 0
  /\ now = 0
  /\ new_video_id = None
  /\ exit_code = None
  /\ baseline_count = None
  /\ posted = <<>>
  /\ successes = 0
  /\ last_result = None
  /\ last_seen = None
  /\ playlist_calls = 0
  /\ queried = {}
  /\ channels_fault = None

\* --------------------------------------------------------------- the channel
\* The channel publishes a video; it becomes the newest item of the playlist.
Publish ==
  /\ pc \notin Terminal
  /\ channel.count < MaxUploads
  /\ \E d \in Descriptions :
       channel' = [count |-> channel.count + 1, description |-> d]
  /\ UNCHANGED << pool_interval, wait_limit, now >>
  /\ UNCHANGED progvars

\* ---------------------------------------------------------------------- main
\* The clock d ticks after t.
Advance(t, d) == IF t + d > Horizon THEN Horizon ELSE t + d

\* started_at.elapsed().as_secs()
ElapsedSecs(t) == (t - started_at) \div TicksPerSec

\* Mutant: the deadline test is strict.
DeadlinePassed_Strict(secs) == secs > wait_limit * SecsPerMinute

\* Mutant: the elapsed seconds are compared with the limit in minutes.
DeadlinePassed_Seconds(secs) == secs >= wait_limit

\* Mutant: the limit is taken for hours.
DeadlinePassed_Hours(secs) ==
  secs >= wait_limit * SecsPerMinute * SecsPerMinute

\* elapsed_minutes >= args.wait_limit as f64, with elapsed_minutes =
\* secs as f64 / 60.0: for the magnitudes of the model the f64 quotient
\* compares with the limit as the exact quotient does.
DeadlinePassed(secs) == secs >= wait_limit * SecsPerMinute

\* Mutant: the ceiling is tested with > in place of ==.
EndOfIteration_Greater(r) ==
  IF r > MAX_RETRIES
    THEN /\ pc' = "RetryExhausted"
         /\ exit_code' = Some(EXIT_PANIC)
    ELSE /\ pc' = "Waiting"
         /\ exit_code' = exit_code

\* Mutant: at the ceiling the loop is left with break in place of panic!.
EndOfIteration_Break(r) ==
  IF r = MAX_RETRIES
    THEN /\ pc' = "RetryExhausted"
         /\ exit_code' = Some(EXIT_OK)
    ELSE /\ pc' = "Waiting"
         /\ exit_code' = exit_code

\* Mutant: the ceiling is tested with <= in place of ==.
EndOfIteration_LessEq(r) ==
  IF r <= MAX_RETRIES
    THEN /\ pc' = "RetryExhausted"
         /\ exit_code' = Some(EXIT_PANIC)
    ELSE /\ pc' = "Waiting"
         /\ exit_code' = exit_code

\* Mutant: the ceiling is tested one failure late.
EndOfIteration_AfterCeiling(r) ==
  IF r = MAX_RETRIES + 1
    THEN /\ pc' = "RetryExhausted"
         /\ exit_code' = Some(EXIT_PANIC)
    ELSE /\ pc' = "Waiting"
         /\ exit_code' = exit_code

\* Mutant: the loop continues with the next lookup without sleeping.
EndOfIteration_NoSleep(r) ==
  IF r = MAX_RETRIES
    THEN /\ pc' = "RetryExhausted"
         /\ exit_code' = Some(EXIT_PANIC)
    ELSE /\ pc' = "Resolving"
         /\ exit_code' = exit_code

\* The end of a loop iteration: the retry ceiling is tested, then the loop
\* goes back to the sleep.
EndOfIteration(r) ==
  IF r = MAX_RETRIES
    THEN /\ pc' = "RetryExhausted"
         /\ exit_code' = Some(EXIT_PANIC)
    ELSE /\ pc' = "Waiting"
         /\ exit_code' = exit_code

\* Mutant: the break after a successful post is missing.
Succeed_NoBreak ==
  /\ pc' = "Waiting"
  /\ exit_code' = exit_code

\* Ok(_) => break, then the closing print and Ok(()).
Succeed ==
  /\ pc' = "Succeeded"
  /\ exit_code' = Some(EXIT_OK)

\* get_uploads_playlist_id(...).await.ok_or(...)?
ResolvePlaylist ==
  /\ pc = "Initializing"
  /\ playlist_calls' = playlist_calls + 1
  /\ \E fault \in ChannelFaults :
       LET id == get_uploads_playlist_id(ChannelsListResponse(fault)) IN
         /\ channels_fault' = Some(fault)
         /\ IF IsSome(id)
              THEN /\ uploads_playlist_id' = id
                   /\ pc' = "Baseline"
                   /\ exit_code' = exit_code
              ELSE /\ uploads_playlist_id' = uploads_playlist_id
                   /\ pc' = "InitFailed"
                   /\ exit_code' = Some(EXIT_ERR)
  /\ UNCHANGED << channel, pool_interval, wait_limit, latest_video_id,
                  retries, started_at, now, new_video_id, baseline_count,
                  posted, successes, last_result, last_seen, queried >>

\* let latest_video_id = get_latest_video_id(...).await;
\* let started_at = Instant::now();
ResolveBaseline ==
  /\ pc = "Baseline"
  /\ \E d \in Delays, fault \in PlaylistFaults :
       /\ now' = Advance(now, d)
       /\ latest_video_id' = get_latest_video_id(
            PlaylistItemsResponse(channel, Unwrap(uploads_playlist_id), fault))
  /\ started_at' = now'
  /\ baseline_count' = Some(channel.count)
  /\ queried' = queried \cup {Unwrap(uploads_playlist_id)}
  /\ pc' = "Waiting"
  /\ UNCHANGED << channel, pool_interval, wait_limit, uploads_playlist_id,
                  retries, new_video_id, exit_code, posted, successes,
                  last_result, last_seen, playlist_calls,
                  channels_fault >>

\* Mutant: the deadline is tested with the time read before the sleep.
WakeUp_CheckBeforeSleep ==
  /\ pc = "Waiting"
  /\ \E d \in Delays :
       now' = Advance(now, pool_interval * TicksPerSec + d)
  /\ IF DeadlinePassed(ElapsedSecs(now))
       THEN /\ pc' = "DeadlineReached"
            /\ exit_code' = Some(EXIT_OK)
       ELSE /\ pc' = "Resolving"
            /\ exit_code' = exit_code
  /\ UNCHANGED << channel, pool_interval, wait_limit, uploads_playlist_id,
                  latest_video_id, retries, started_at, new_video_id,
                  baseline_count, posted, successes, last_result,
                  last_seen, playlist_calls, queried, channels_fault >>

\* sleep(pool_interval).await returns; the deadline is tested.
WakeUp ==
  /\ pc = "Waiting"
  /\ \E d \in Delays :
       now' = Advance(now, pool_interval * TicksPerSec + d)
  /\ IF DeadlinePassed(ElapsedSecs(now'))
       THEN /\ pc' = "DeadlineReached"
            /\ exit_code' = Some(EXIT_OK)
       ELSE /\ pc' = "Resolving"
            /\ exit_code' = exit_code
  /\ UNCHANGED << channel, pool_interval, wait_limit, uploads_playlist_id,
                  latest_video_id, retries, started_at, new_video_id,
                  baseline_count, posted, successes, last_result,
                  last_seen, playlist_calls, queried, channels_fault >>

\* Mutant: the comparison with the baseline is missing.
Changed_Always(result) == IsSome(result)

\* Mutant: without a baseline nothing counts as a change.
Changed_NeedsBaseline(result) ==
  IsSome(result) /\ IsSome(latest_video_id) /\ result # latest_video_id

\* Some(new_video_id.clone()) != latest_video_id
Changed(result) == IsSome(result) /\ result # latest_video_id

\* Mutant: a detected video becomes the baseline before it is posted to.
Resolve_UpdatesBaseline ==
  /\ pc = "Resolving"
  /\ \E d \in Delays, fault \in PlaylistFaults :
       LET result == get_latest_video_id(
             PlaylistItemsResponse(channel, Unwrap(uploads_playlist_id), fault))
       IN
         /\ now' = Advance(now, d)
         /\ last_result' = Some(result)
         /\ last_seen' = Some(channel.description)
         /\ queried' = queried \cup {Unwrap(uploads_playlist_id)}
         /\ IF Changed(result)
              THEN /\ pc' = "Posting"
                   /\ new_video_id' = result
                   /\ latest_video_id' = result
                   /\ posted' = Append(posted, Unwrap(result))
                   /\ exit_code' = exit_code
              ELSE /\ EndOfIteration(retries)
                   /\ new_video_id' = new_video_id
                   /\ posted' = posted
                   /\ latest_video_id' = latest_video_id
  /\ UNCHANGED << channel, pool_interval, wait_limit, uploads_playlist_id,
                  retries, started_at, baseline_count,
                  successes, playlist_calls, channels_fault >>

\* Mutant: a tick without a change resets the retry counter.
Resolve_ResetsRetries ==
  /\ pc = "Resolving"
  /\ \E d \in Delays, fault \in PlaylistFaults :
       LET result == get_latest_video_id(
             PlaylistItemsResponse(channel, Unwrap(uploads_playlist_id), fault))
       IN
         /\ now' = Advance(now, d)
         /\ last_result' = Some(result)
         /\ last_seen' = Some(channel.description)
         /\ queried' = queried \cup {Unwrap(uploads_playlist_id)}
         /\ IF Changed(result)
              THEN /\ pc' = "Posting"
                   /\ new_video_id' = result
                   /\ posted' = Append(posted, Unwrap(result))
                   /\ exit_code' = exit_code
                   /\ retries' = retries
              ELSE /\ retries' = 0
                   /\ EndOfIteration(retries')
                   /\ new_video_id' = new_video_id
                   /\ posted' = posted
  /\ UNCHANGED << channel, pool_interval, wait_limit, uploads_playlist_id,
                  latest_video_id, started_at, baseline_count,
                  successes, playlist_calls, channels_fault >>

\* Mutant: every tick resolves the uploads playlist id again.
Resolve_Refetches ==
  /\ pc = "Resolving"
  /\ playlist_calls' = playlist_calls + 1
  /\ \E d \in Delays, fault \in PlaylistFaults :
       LET result == get_latest_video_id(
             PlaylistItemsResponse(channel, Unwrap(uploads_playlist_id), fault))
       IN
         /\ now' = Advance(now, d)
         /\ last_result' = Some(result)
         /\ last_seen' = Some(channel.description)
         /\ queried' = queried \cup {Unwrap(uploads_playlist_id)}
         /\ IF Changed(result)
              THEN /\ pc' = "Posting"
                   /\ new_video_id' = result
                   /\ posted' = Append(posted, Unwrap(result))
                   /\ exit_code' = exit_code
              ELSE /\ EndOfIteration(retries)
                   /\ new_video_id' = new_video_id
                   /\ posted' = posted
  /\ UNCHANGED << channel, pool_interval, wait_limit, uploads_playlist_id,
                  latest_video_id, retries, started_at, baseline_count,
                  successes, channels_fault >>

\* get_latest_video_id(...).await returns in the loop; on a change
\* post_comment is called.
Resolve ==
  /\ pc = "Resolving"
  /\ \E d \in Delays, fault \in PlaylistFaults :
       LET result == get_latest_video_id(
             PlaylistItemsResponse(channel, Unwrap(uploads_playlist_id), fault))
       IN
         /\ now' = Advance(now, d)
         /\ last_result' = Some(result)
         /\ last_seen' = Some(channel.description)
         /\ queried' = queried \cup {Unwrap(uploads_playlist_id)}
         /\ IF Changed(result)
              THEN /\ pc' = "Posting"
                   /\ new_video_id' = result
                   /\ posted' = Append(posted, Unwrap(result))
                   /\ exit_code' = exit_code
              ELSE /\ EndOfIteration(retries)
                   /\ new_video_id' = new_video_id
                   /\ posted' = posted
  /\ UNCHANGED << channel, pool_interval, wait_limit, uploads_playlist_id,
                  latest_video_id, retries, started_at, baseline_count,
                  successes, playlist_calls, channels_fault >>

\* Mutant: a video whose post failed becomes the baseline.
PostComment_MarksSeen ==
  /\ pc = "Posting"
  /\ \E d \in Delays : now' = Advance(now, d)
  /\ \E ok \in BOOLEAN :
       IF ok
         THEN /\ Succeed
              /\ latest_video_id' = latest_video_id
              /\ successes' = successes + 1
              /\ retries' = retries
         ELSE /\ retries' = (retries + 1) % U8
              /\ successes' = successes
              /\ EndOfIteration(retries')
              /\ latest_video_id' = new_video_id
  /\ new_video_id' = None
  /\ UNCHANGED << channel, pool_interval, wait_limit, uploads_playlist_id,
                  started_at, baseline_count, posted,
                  last_result, last_seen, playlist_calls, queried,
                  channels_fault >>

\* post_comment(...).await returns.
PostComment ==
  /\ pc = "Posting"
  /\ \E d \in Delays : now' = Advance(now, d)
  /\ \E ok \in BOOLEAN :
       IF ok
         THEN /\ Succeed
              /\ successes' = successes + 1
              /\ retries' = retries
         ELSE /\ retries' = (retries + 1) % U8
              /\ successes' = successes
              /\ EndOfIteration(retries')
  /\ new_video_id' = None
  /\ UNCHANGED << channel, pool_interval, wait_limit, uploads_playlist_id,
                  latest_video_id, started_at, baseline_count, posted,
                  last_result, last_seen, playlist_calls, queried,
                  channels_fault >>

Next ==
  \/ Publish
  \/ ResolvePlaylist
  \/ ResolveBaseline
  \/ WakeUp
  \/ Resolve
  \/ PostComment

Spec == Init /\ [][Next]_vars

\* Every await of main returns: the runtime resumes the task when the sleep
\* or the network call it waits for completes.  The channel owes nothing.
FairSpec ==
  /\ Spec
  /\ WF_vars(ResolvePlaylist)
  /\ WF_vars(ResolveBaseline)
  /\ WF_vars(WakeUp)
  /\ WF_vars(Resolve)
  /\ WF_vars(PostComment)

\* ------------------------------------------------------------------ claims
\* No run reaches the horizon of the clock.
ClockBelowHorizon == now < Horizon

\* The process is in one of the loop's terminal states.
LoopTerminal == {"Succeeded", "RetryExhausted", "DeadlineReached"}

\* Descriptions that carry the short-form marker.
ShortDescriptions == { Some(<<"a", " ">> \o SHORTS \o <<"!">>) }

\* The newest upload is a short.
ShortLatest == channel.count > 0 /\ channel.description \in ShortDescriptions

\* Time since started_at, in ticks, and the wait limit in ticks.
ElapsedTicks == now - started_at
LimitTicks == wait_limit * SecsPerMinute * TicksPerSec

\* An in-loop call of get_latest_video_id returns in this step.
ResolveStep == pc = "Resolving" /\ pc' # "Resolving"

\* C1: post_comment is only ever called with the id of a video published
\* after the baseline resolution; a video that was already in the uploads
\* collection at the baseline call never receives a post attempt.
C1_PostOnlyNewVideos ==
  \A i \in 1..Len(posted) :
    IsSome(baseline_count) /\ posted[i] > Unwrap(baseline_count)

\* C2 as stated: in a tick that resolves the same video id as the tick
\* before it, no comment post is attempted.
C2_ConstantFromTickToTick ==
  [][ ( /\ ResolveStep
        /\ IsSome(last_result)
        /\ IsSome(Unwrap(last_result))
        /\ last_result' = last_result )
      => posted' = posted ]_vars

\* C2 amended: in a tick that resolves a video id equal to the baseline
\* latest_video_id, no comment post is attempted, and the loop goes back to
\* its sleep with the retry counter as it was.
C2_EqualToBaselineNoPost ==
  [][ ( /\ ResolveStep
        /\ IsSome(latest_video_id)
        /\ last_result' = Some(latest_video_id) )
      => ( /\ posted' = posted
           /\ pc' = "Waiting"
           /\ retries' = retries ) ]_vars

\* Two ticks have passed, the last resolved the baseline's id, nothing was
\* posted.
C2_Witness ==
  /\ pc = "Waiting"
  /\ IsSome(latest_video_id)
  /\ last_result = Some(latest_video_id)
  /\ last_seen # None
  /\ posted = <<>>
  /\ ElapsedTicks >= 2 * pool_interval * TicksPerSec

\* C3: when the newest item's description contains "#shorts",
\* get_latest_video_id returns absent whatever the item's id and however the
\* call goes; a tick in which this happens attempts no post and leaves the
\* baseline and the retry counter unchanged.
C3_ShortIsAbsent ==
  /\ [](ShortLatest =>
         \A fault \in PlaylistFaults :
           get_latest_video_id(
             PlaylistItemsResponse(channel, UPLOADS_ID, fault)) = None)
  /\ [][ (ResolveStep /\ ShortLatest)
         => ( /\ last_result' = Some(None)
              /\ posted' = posted
              /\ pc' # "Posting"
              /\ latest_video_id' = latest_video_id
              /\ retries' = retries ) ]_vars

\* A tick saw a short whose id differs from the baseline's and did not post.
C3_Witness ==
  /\ pc = "Waiting"
  /\ IsSome(last_seen)
  /\ Unwrap(last_seen) \in ShortDescriptions
  /\ last_result = Some(None)
  /\ IsSome(baseline_count)
  /\ channel.count > Unwrap(baseline_count)
  /\ ShortLatest
  /\ posted = <<>>

\* C4: once the retry counter is at MAX_RETRIES the loop is in
\* RetryExhausted, reached by the step of the failed post that brought the
\* counter there, and nothing of the program runs afterwards.
C4_RetryExhausted ==
  /\ [](retries = MAX_RETRIES => pc = "RetryExhausted")
  /\ [][ (retries # MAX_RETRIES /\ retries' = MAX_RETRIES)
         => (pc = "Posting" /\ pc' = "RetryExhausted" /\ posted' = posted) ]_vars
  /\ [][ pc = "RetryExhausted" => UNCHANGED progvars ]_vars

\* Three posts failed and the run is in RetryExhausted.
C4_Witness ==
  /\ pc = "RetryExhausted"
  /\ retries = MAX_RETRIES
  /\ Len(posted) = MAX_RETRIES
  /\ successes = 0

\* C5: when the sleep returns with at least wait_limit minutes elapsed since
\* started_at, the loop ends in DeadlineReached in that step, without a call
\* of get_latest_video_id or post_comment, and nothing runs afterwards.
C5_DeadlineAtWakeUp ==
  /\ [][ (pc = "Waiting" /\ pc' # "Waiting"
           /\ now' - started_at >= LimitTicks)
         => ( /\ pc' = "DeadlineReached"
              /\ posted' = posted
              /\ last_result' = last_result
              /\ last_seen' = last_seen ) ]_vars
  /\ [][ pc = "DeadlineReached" => UNCHANGED progvars ]_vars

\* The sleep returned exactly at the deadline, after at least one tick.
C5_Witness ==
  /\ pc = "DeadlineReached"
  /\ wait_limit > 0
  /\ ElapsedTicks = LimitTicks
  /\ IsSome(last_result)

\* C6 as stated: a run that ends in RetryExhausted or in DeadlineReached
\* exits with a non-zero code.
C6_NonZeroExit ==
  pc \in {"RetryExhausted", "DeadlineReached"}
    => (IsSome(exit_code) /\ Unwrap(exit_code) # 0)

\* C6 amended: a run that ends in RetryExhausted exits with a non-zero code
\* (the panic's); a run that ends in DeadlineReached exits with code 0.
C6_ExitCodes ==
  /\ pc = "RetryExhausted" =>
       (IsSome(exit_code) /\ Unwrap(exit_code) # 0)
  /\ pc = "DeadlineReached" => exit_code = Some(EXIT_OK)
  /\ pc \notin Terminal => exit_code = None

\* A run ended in RetryExhausted with the panic's exit code.
C6_Witness ==
  /\ pc = "RetryExhausted"
  /\ exit_code = Some(EXIT_PANIC)

\* C7: the first successful post_comment ends the loop in Succeeded with
\* exit code 0; nothing runs afterwards, so a run has at most one
\* successful post.
C7_SuccessIsTerminal ==
  /\ [](successes <= 1)
  /\ [](successes = 1 => (pc = "Succeeded" /\ exit_code = Some(EXIT_OK)))
  /\ [](pc = "Succeeded" => successes = 1)
  /\ [][ pc = "Succeeded" => UNCHANGED progvars ]_vars

\* A post succeeded after an earlier one had failed.
C7_Witness ==
  /\ pc = "Succeeded"
  /\ successes = 1
  /\ Len(posted) = 2
  /\ retries = 1

\* The channel lookup was answered without an uploads playlist id.
ChannelLookupFailed ==
  IsSome(channels_fault) /\ Unwrap(channels_fault) # "none"

\* C8: when get_uploads_playlist_id returns absent the run aborts at once:
\* no baseline resolution, no loop, no call of get_latest_video_id or
\* post_comment, and a non-zero exit code.
C8_InitFailureAborts ==
  ChannelLookupFailed =>
    /\ pc = "InitFailed"
    /\ IsSome(exit_code) /\ Unwrap(exit_code) # 0
    /\ uploads_playlist_id = None
    /\ baseline_count = None
    /\ last_result = None
    /\ posted = <<>>
    /\ playlist_calls = 1

\* The lookup failed while the channel had a video to comment on.
C8_Witness ==
  /\ pc = "InitFailed"
  /\ channels_fault = Some("no_uploads")
  /\ channel.count > 0
  /\ exit_code = Some(EXIT_ERR)

\* C9: a run that passes initialization (the uploads playlist is resolved)
\* eventually reaches one of Succeeded, RetryExhausted, DeadlineReached,
\* whatever the resolutions and posts return, and then stays in it.
C9_Terminates ==
  /\ (pc = "Baseline") ~> (pc \in LoopTerminal)
  /\ [][ (pc \in LoopTerminal) => UNCHANGED pc ]_vars

\* A run ended at the deadline after posts had failed on the way.
C9_Witness ==
  /\ pc = "DeadlineReached"
  /\ retries = 2
  /\ Len(posted) = 2

\* C10: a run in which no tick detects a change ends in DeadlineReached,
\* never in Succeeded or RetryExhausted (those need a detected change), and
\* DeadlineReached is only entered with at least wait_limit minutes elapsed.
C10_NoChangeEndsAtDeadline ==
  /\ [](pc \in {"Succeeded", "RetryExhausted"} => posted # <<>>)
  /\ [](pc = "DeadlineReached" => ElapsedTicks >= LimitTicks)
  /\ ([](posted = <<>>) => <>(pc \in {"DeadlineReached", "InitFailed"}))

\* A run polled several times, detected nothing and ended at the deadline.
C10_Witness ==
  /\ pc = "DeadlineReached"
  /\ posted = <<>>
  /\ IsSome(last_result)
  /\ wait_limit > 0
  /\ channel.count > 0

\* C11: a poll tick whose resolution returns absent (a failed call, an
\* empty or incomplete answer, a short) is not fatal: it attempts no post,
\* leaves the retry counter and the baseline unchanged and goes back to the
\* sleep; RetryExhausted is never reached without MAX_RETRIES post attempts.
C11_ResolutionFailureNotFatal ==
  /\ [][ (ResolveStep /\ last_result' = Some(None))
         => ( /\ pc' = "Waiting"
              /\ exit_code' = exit_code
              /\ posted' = posted
              /\ retries' = retries
              /\ latest_video_id' = latest_video_id ) ]_vars
  /\ [](pc = "RetryExhausted" => Len(posted) >= MAX_RETRIES)

\* After a failed post, a tick's call went wrong on a channel whose newest
\* upload is no short, and the loop is back at its sleep.
C11_Witness ==
  /\ pc = "Waiting"
  /\ retries = 1
  /\ last_result = Some(None)
  /\ IsSome(last_seen)
  /\ Unwrap(last_seen) \notin ShortDescriptions

\* C12: at a poll tick post_comment is called if and only if
\* get_latest_video_id returned a present id that differs from the baseline;
\* with an absent baseline every present id is a change, and an id equal to
\* the baseline sends the loop back to its sleep without a post.
C12_PostIffChanged ==
  [][ ResolveStep =>
      LET result == Unwrap(last_result') IN
        IF IsSome(result) /\ (~IsSome(latest_video_id)
                               \/ Unwrap(result) # Unwrap(latest_video_id))
          THEN /\ pc' = "Posting"
               /\ posted' = Append(posted, Unwrap(result))
          ELSE /\ pc' = "Waiting"
               /\ posted' = posted ]_vars

\* The baseline was absent on an empty channel and the first video
\* published afterwards is being posted to.
C12_Witness ==
  /\ pc = "Posting"
  /\ latest_video_id = None
  /\ baseline_count = Some(0)
  /\ posted = <<1>>

\* C13 as stated: once a post on a video has failed, no later post of the
\* run targets that video (no video id is posted to twice).
C13_FailedVideoNotRetried ==
  \A i \in 1..Len(posted) : \A j \in 1..Len(posted) :
    i # j => posted[i] # posted[j]

\* C13 amended: after a failed post on a video, every later tick that
\* resolves that same video posts to it again (the baseline is not moved),
\* and no post ever targets the baseline's id.
C13_FailedVideoIsRetried ==
  /\ [][ ( /\ ResolveStep
           /\ posted # <<>>
           /\ last_result' = Some(Some(posted[Len(posted)])) )
         => ( /\ pc' = "Posting"
              /\ posted' = Append(posted, posted[Len(posted)]) ) ]_vars
  /\ [](\A i \in 1..Len(posted) : Some(posted[i]) # latest_video_id)

\* The same video is posted to a second time after the first post failed.
C13_Witness ==
  /\ pc = "Posting"
  /\ retries = 1
  /\ Len(posted) = 2
  /\ posted[1] = posted[2]

\* C14 as stated: DeadlineReached is entered at most one poll interval
\* after the nominal deadline started_at + wait_limit.
C14_WithinOnePollInterval ==
  pc = "DeadlineReached"
    => ElapsedTicks <= LimitTicks + pool_interval * TicksPerSec

\* C14 amended: DeadlineReached is entered at the first wake-up at or after
\* the nominal deadline, which is less than one poll interval plus the time
\* of one iteration's awaits (the lookup, the post, the sleep's overshoot,
\* MaxDelay each at most) after it.
C14_WithinOneIteration ==
  /\ pc = "DeadlineReached"
       => ElapsedTicks < LimitTicks + pool_interval * TicksPerSec + 3 * MaxDelay
  /\ (pc \in {"Resolving", "Posting"} => ElapsedTicks < LimitTicks + 2 * MaxDelay)

\* The deadline was found more than one poll interval after it had passed.
C14_Witness ==
  /\ pc = "DeadlineReached"
  /\ wait_limit > 0
  /\ ElapsedTicks > LimitTicks + pool_interval * TicksPerSec

\* C15: a post is only issued by a tick's lookup, one per tick, and a tick's
\* lookup only follows a sleep of the full poll interval whose deadline test
\* passed; after a post the loop sleeps or ends.  So between two posts there
\* are a full sleep, a passed deadline test and a fresh lookup.
C15_OnePostPerTick ==
  /\ [][ posted' # posted
         => ( /\ pc = "Resolving"
              /\ pc' = "Posting"
              /\ Len(posted') = Len(posted) + 1 ) ]_vars
  /\ [][ (pc = "Posting" /\ pc' # pc)
         => pc' \in {"Waiting", "Succeeded", "RetryExhausted"} ]_vars
  /\ [][ (pc # "Resolving" /\ pc' = "Resolving")
         => ( /\ pc = "Waiting"
              /\ now' - now >= pool_interval * TicksPerSec
              /\ now' - started_at < LimitTicks ) ]_vars
  /\ [][ (pc = "Resolving" /\ pc' # pc)
         => pc' \in {"Posting", "Waiting"} ]_vars

\* A second post is in flight, one tick after the first had failed.
C15_Witness ==
  /\ pc = "Posting"
  /\ Len(posted) = 2
  /\ retries = 1
  /\ ElapsedTicks >= 2 * pool_interval * TicksPerSec

\* C16: the baseline latest_video_id is set once, by the resolution made
\* before the loop, and no tick, whatever its outcome, changes it afterwards.
C16_BaselineSetOnce ==
  /\ [](pc \in {"Initializing", "Baseline", "InitFailed"}
          => latest_video_id = None)
  /\ [][ latest_video_id' # latest_video_id
         => (pc = "Baseline" /\ pc' = "Waiting") ]_vars

\* Two posts on a newer video have failed and the baseline still names the
\* video found before the loop.
C16_Witness ==
  /\ pc = "Waiting"
  /\ retries = 2
  /\ latest_video_id = Some(1)
  /\ posted = <<2, 2>>
  /\ last_result = Some(Some(2))

\* Posts that have returned Err: the calls made, less the one in flight and
\* the successful one.
FailedPosts ==
  Len(posted) - successes - (IF pc = "Posting" THEN 1 ELSE 0)

\* C17: the retry counter starts at 0, is never decreased or reset, and
\* changes only by +1 in the step of a post_comment call that failed; ticks
\* with an absent or unchanged resolution and the deadline exit leave it.
C17_RetriesCountFailedPosts ==
  /\ [](pc \in {"Initializing", "Baseline", "InitFailed"} => retries = 0)
  /\ [](retries = FailedPosts)
  /\ [][ retries' # retries
         => ( /\ pc = "Posting"
              /\ retries' = retries + 1
              /\ successes' = successes ) ]_vars

\* After a failed post, a tick without a change and the deadline exit have
\* left the counter at 1.
C17_Witness ==
  /\ pc = "DeadlineReached"
  /\ retries = 1
  /\ Len(posted) = 1
  /\ last_result # Some(Some(posted[1]))

\* C18: get_uploads_playlist_id is called once, during initialization; the
\* id it returned is never changed, and every call of get_latest_video_id,
\* the baseline's and each tick's, is made with that id.
C18_PlaylistResolvedOnce ==
  /\ [](playlist_calls = (IF pc = "Initializing" THEN 0 ELSE 1))
  /\ [](queried # {} =>
          (IsSome(uploads_playlist_id)
             /\ queried = {Unwrap(uploads_playlist_id)}))
  /\ [][ uploads_playlist_id' # uploads_playlist_id
         => (pc = "Initializing" /\ uploads_playlist_id = None) ]_vars

\* Three lookups were made in the loop after the baseline's.
C18_Witness ==
  /\ pc = "RetryExhausted"
  /\ playlist_calls = 1
  /\ queried = {UPLOADS_ID}
  /\ Len(posted) = MAX_RETRIES

\* C19: the retry counter never exceeds MAX_RETRIES and is below it
\* whenever an iteration begins or is under way, so the test
\* retries == MAX_RETRIES is never stepped over and a run makes at most
\* MAX_RETRIES post_comment calls.
C19_RetriesBounded ==
  /\ retries <= MAX_RETRIES
  /\ pc \in {"Waiting", "Resolving", "Posting"} => retries < MAX_RETRIES
  /\ Len(posted) <= MAX_RETRIES
  /\ successes = 1 => FailedPosts <= MAX_RETRIES - 1
  /\ pc = "RetryExhausted" => FailedPosts = MAX_RETRIES

\* A third post succeeded after two failures.
C19_Witness ==
  /\ pc = "Succeeded"
  /\ retries = MAX_RETRIES - 1
  /\ Len(posted) = MAX_RETRIES

\* The poll interval is at least as long as the wait limit.
IntervalCoversLimit == pool_interval >= wait_limit * SecsPerMinute

\* C20: with pool_interval seconds >= wait_limit * 60 the first wake-up
\* ends the run in DeadlineReached, without an in-loop lookup or a post;
\* in general a tick's lookup is only started at a wake-up whose elapsed
\* whole seconds are below wait_limit * 60.
C20_TickOnlyBeforeDeadline ==
  /\ []( (IntervalCoversLimit /\ IsSome(baseline_count))
           => ( /\ pc \in {"Waiting", "DeadlineReached"}
                /\ (pc = "Waiting" => now = started_at)
                /\ last_result = None
                /\ posted = <<>> ) )
  /\ [][ (pc # "Resolving" /\ pc' = "Resolving")
         => (now' - started_at) \div TicksPerSec
              < wait_limit * SecsPerMinute ]_vars

\* With pool_interval = 60 s and wait_limit = 1 min the run ended at its
\* first wake-up although the channel had published a video meanwhile.
C20_Witness ==
  /\ pc = "DeadlineReached"
  /\ wait_limit > 0
  /\ IntervalCoversLimit
  /\ IsSome(baseline_count)
  /\ channel.count > Unwrap(baseline_count)
  /\ ~ShortLatest
  /\ posted = <<>>

====
